---- MODULE Spec2Model ----
(***************************************************************************)
(* hivedb: a DB-API cursor over the hive command-line tool.                *)
(*                                                                         *)
(* The model follows src/cursors.py (BaseCursor, the stream/tuple/trigger  *)
(* mix-ins) and src/query.py (the Query thread that drives the external    *)
(* process).  Python values are records [py |-> <type>, v |-> <content>]:  *)
(* a text line is a "str" whose content is its tab-separated fields (the   *)
(* empty string '' has no field), None and True have no content, a row is  *)
(* a "tuple" of decoded scalars, a batch is a "list" of rows.              *)
(*                                                                         *)
(* Query.__init__ (src/query.py:18) names the module `threading`, which    *)
(* query.py does not import; the model takes the thread to be constructed  *)
(* as Thread.__init__ would construct it, so that the driver and the       *)
(* cursor operations behind it can be examined.                            *)
(***************************************************************************)
EXTENDS Naturals, Sequences, FiniteSets, TLC

(***************************************************************************)
(* Bounds of the model.                                                    *)
(***************************************************************************)
\* most data rows the tool prints in one run
MaxRows == 2
\* largest size handed to fetchmany
MaxSize == 2
\* nextset is not called once _result_index has reached this value
MaxIndex == 4
\* calls that would append to cursor.messages stop at this length
MaxMessages == 2
\* longest sequence_of_args handed to executemany
MaxArgs == 2

(***************************************************************************)
(* Python values.                                                          *)
(***************************************************************************)
PyNone == [py |-> "None", v |-> <<>>]
PyTrue == [py |-> "True", v |-> <<>>]
PyStr(fields) == [py |-> "str", v |-> fields]
PyTuple(vals) == [py |-> "tuple", v |-> vals]
PyList(items) == [py |-> "list", v |-> items]
\* '' as readline() returns it at the end of a stream
EmptyStr == PyStr(<<>>)
\* Python truth of a value: None, '' and [] are false
Truthy(x) == x.py # "None" /\ (x.py \in {"str", "list"} => x.v # <<>>)
\* raw.replace('\n', '').split('\t'): '' splits to ['']
Split(raw) == IF raw.v = <<>> THEN <<"">> ELSE raw.v

(***************************************************************************)
(* Text values of fields, and what float(), int() and json.loads() make of *)
(* them.                                                                   *)
(***************************************************************************)
FloatText == {"1", "2", "3.0", "1.5"}
IntText == {"1", "2"}
JsonText == {"1", "2", "3.0", "1.5", "[1]"}
FieldText == FloatText \cup JsonText \cup {"foo", "NULL", ""}

\* int(float(value)) as text
IntOfFloat(value) ==
    CASE value = "1" -> "1"
      [] value = "2" -> "2"
      [] value = "3.0" -> "3"
      [] value = "1.5" -> "1"
\* repr(float(value))
FloatOf(value) ==
    CASE value = "1" -> "1.0"
      [] value = "2" -> "2.0"
      [] value = "3.0" -> "3.0"
      [] value = "1.5" -> "1.5"
\* json.loads(value), for text that is not a float literal
JsonOf(value) ==
    CASE value = "[1]" -> [t |-> "list", v |-> "[1]"]
      [] value = "1" -> [t |-> "int", v |-> "1"]
      [] value = "2" -> [t |-> "int", v |-> "2"]
      [] value = "3.0" -> [t |-> "float", v |-> "3.0"]
      [] value = "1.5" -> [t |-> "float", v |-> "1.5"]

infer_type(value) ==
    IF value \in FloatText
    THEN IF value \in IntText THEN "int" ELSE "float"
    ELSE IF value \in JsonText THEN "json" ELSE "str"

\* force_type: [exc, val]; exc is "none" or the exception class raised
force_type(type, value) ==
    CASE type = "int" ->
            IF value = "NULL" THEN [exc |-> "none", val |-> [t |-> "int", v |-> "0"]]
            ELSE IF value \in FloatText
                 THEN [exc |-> "none", val |-> [t |-> "int", v |-> IntOfFloat(value)]]
                 ELSE [exc |-> "ValueError", val |-> [t |-> "none", v |-> ""]]
      [] type = "float" ->
            IF value = "NULL" THEN [exc |-> "none", val |-> [t |-> "float", v |-> "0.0"]]
            ELSE IF value \in FloatText
                 THEN [exc |-> "none", val |-> [t |-> "float", v |-> FloatOf(value)]]
                 ELSE [exc |-> "ValueError", val |-> [t |-> "none", v |-> ""]]
      [] type = "str" ->
            IF value = "NULL" THEN [exc |-> "none", val |-> [t |-> "str", v |-> ""]]
            ELSE [exc |-> "none", val |-> [t |-> "str", v |-> value]]
      [] type = "json" ->
            IF value = "NULL" THEN [exc |-> "none", val |-> [t |-> "NoneType", v |-> "None"]]
            ELSE IF value \in JsonText
                 THEN [exc |-> "none", val |-> JsonOf(value)]
                 ELSE [exc |-> "ValueError", val |-> [t |-> "none", v |-> ""]]

(***************************************************************************)
(* The program's state.                                                    *)
(*                                                                         *)
(* cursors[k]            fields of cursor object k (BaseCursor.__init__):  *)
(*                       cls, connection (TRUE while attached), _executed, *)
(*                       messages, errorhandler, _descriptions,            *)
(*                       description, _result, _result_index, _buffer,     *)
(*                       _trigger_columns                                  *)
(* _trigger_column_values the dict CursorTriggeredSetMixIn defines in its  *)
(*                       class body: one object for every cursor           *)
(* queries[q]            Query thread q: cursor, id, pc, ready, message    *)
(* process[q]            the process Query q launched: alive, stderr and   *)
(*                       stdout as [lines, pos]                            *)
(* tool                  what the hive tool prints in the runs still to    *)
(*                       be launched: a sequence of [diag, out]            *)
(* caller                the calling thread: idle, or inside execute       *)
(*                       waiting for a Query                               *)
(* events                the callbacks invoked so far, in order            *)
(* last                  the last cursor call: what it was, what held      *)
(*                       before it, what it returned or raised             *)
(* consumer[k]           the batches fetchall() returned to a caller that  *)
(*                       reads cursor k with                               *)
(*                       fetchall(); while nextset(): fetchall()           *)
(***************************************************************************)
VARIABLES cursors, _trigger_column_values, queries, process, tool, caller,
          events, last, consumer

vars == <<cursors, _trigger_column_values, queries, process, tool, caller,
          events, last, consumer>>

(***************************************************************************)
(* Dictionaries keyed by result-set id.                                    *)
(***************************************************************************)
EmptyDict == [x \in {} |-> PyNone]
Put(d, key, value) == [x \in DOMAIN d \cup {key} |-> IF x = key THEN value ELSE d[x]]
Del(d, key) == [x \in DOMAIN d \ {key} |-> d[x]]

(***************************************************************************)
(* A cursor method is an operator on a world w = [c, tcv, out]: the cursor *)
(* object, the shared trigger values and the stdout streams by handle.  It *)
(* gives [w, ret, exc]: the world it leaves, the value it returns, and the *)
(* exception it raises ("none" when it returns).                           *)
(***************************************************************************)
Return(w, value) == [w |-> w, ret |-> value, exc |-> "none"]
Raise(w, class) == [w |-> w, ret |-> PyNone, exc |-> class]
\* sequencing: the statements Rest run on the outcome of the one before
Then(outcome, Rest(_)) == Rest(outcome)
\* the same, when an exception of the statement before leaves the method
Try(outcome, Rest(_)) == IF outcome.exc # "none" THEN outcome ELSE Rest(outcome)

\* connections.defaulterrorhandler, or a handler put in its place on the
\* instance that records the error and returns
errorhandler(w, errorclass, errorvalue) ==
    IF w.c.errorhandler = "default"
    THEN Raise([w EXCEPT !.c.messages = Append(@, <<errorclass, errorvalue>>)], errorclass)
    ELSE Return([w EXCEPT !.c.messages = Append(@, <<errorclass, errorvalue>>)], PyNone)

\* file.readline() on the stdout stream with handle h
readline(w, h) ==
    IF w.out[h].pos < Len(w.out[h].lines)
    THEN Return([w EXCEPT !.out[h].pos = @ + 1], PyStr(w.out[h].lines[w.out[h].pos + 1]))
    ELSE Return(w, EmptyStr)

_check_executed(w) ==
    IF ~w.c._executed THEN errorhandler(w, "ProgrammingError", "execute() first")
    ELSE Return(w, PyNone)

_get_db(w) ==
    IF ~w.c.connection
    THEN Try(errorhandler(w, "ProgrammingError", "cursor closed"),
             LAMBDA e : Return(e.w, PyNone))
    ELSE Return(w, PyTrue)

BaseCursor_read_buffer(w) ==
    IF w.c._result_index \notin DOMAIN w.c._result THEN Raise(w, "KeyError")
    ELSE readline(w, w.c._result[w.c._result_index])

\* the loop of lines 454-458: "same", "trigger", or the exception of the
\* first subscript that fails; columns are 0-based as in the source
RECURSIVE TriggerChanged(_, _, _, _)
TriggerChanged(buffer, columns, values, index) ==
    IF index >= Len(columns) THEN "same"
    ELSE IF columns[index + 1] >= Len(buffer) THEN "IndexError"
    ELSE IF index \notin DOMAIN values THEN "KeyError"
    ELSE IF buffer[columns[index + 1] + 1] # values[index] THEN "trigger"
    ELSE TriggerChanged(buffer, columns, values, index + 1)

\* the loop of lines 462-465: [values, exc]; the values recorded before a
\* failing subscript stay recorded
RECURSIVE RecordTriggers(_, _, _, _)
RecordTriggers(buffer, columns, values, index) ==
    IF index >= Len(columns) THEN [values |-> values, exc |-> "none"]
    ELSE IF columns[index + 1] >= Len(buffer) THEN [values |-> values, exc |-> "IndexError"]
    ELSE RecordTriggers(buffer, columns,
                        Put(values, index, buffer[columns[index + 1] + 1]), index + 1)

\* lines 466-472 at result-set id i: the stream, its lookahead and its
\* schema move to id i + 1
RehomeAt(w, i, _buffer) ==
    Then([w EXCEPT !.c._result = Del(Put(@, i + 1, @[i]), i),
                   !.c._buffer = Put(@, i + 1, _buffer)],
         LAMBDA w1 :
            IF i \notin DOMAIN w1.c._descriptions THEN Raise(w1, "KeyError")
            ELSE IF i \notin DOMAIN w1.c._buffer
            THEN Raise([w1 EXCEPT !.c._descriptions = Del(Put(@, i + 1, @[i]), i)], "KeyError")
            ELSE Return([w1 EXCEPT !.c._descriptions = Del(Put(@, i + 1, @[i]), i),
                                   !.c._buffer = Del(@, i)], PyNone))

RehomeResult(w, _buffer) == RehomeAt(w, w.c._result_index, _buffer)

\* lines 461-472, taken when a trigger column changed
SplitResult(w, _buffer) ==
    Then(RecordTriggers(Split(_buffer), w.c._trigger_columns.v, w.tcv, 0),
         LAMBDA rec :
            IF rec.exc # "none" THEN Raise([w EXCEPT !.tcv = rec.values], rec.exc)
            ELSE RehomeResult([w EXCEPT !.tcv = rec.values], _buffer))

\* TriggerCheck as it would be if a line read with no trigger columns
\* configured were taken for a change of trigger values
TriggerCheck_SplitsWithoutColumns(r) ==
    IF r.w.c._trigger_columns.v = <<>> THEN SplitResult(r.w, r.ret)
    ELSE IF r.w.c._trigger_columns.kind = "names" THEN Raise(r.w, "TypeError")
    ELSE Then(TriggerChanged(Split(r.ret), r.w.c._trigger_columns.v, r.w.tcv, 0),
              LAMBDA t :
                 IF t = "same" THEN r
                 ELSE IF t # "trigger" THEN Raise(r.w, t)
                 ELSE SplitResult(r.w, r.ret))

\* lines 448-460, on the line r just read
TriggerCheck(r) ==
    IF r.w.c._trigger_columns.v = <<>> THEN r
    ELSE IF r.w.c._trigger_columns.kind = "names" THEN Raise(r.w, "TypeError")
    ELSE Then(TriggerChanged(Split(r.ret), r.w.c._trigger_columns.v, r.w.tcv, 0),
              LAMBDA t :
                 IF t = "same" THEN r
                 ELSE IF t # "trigger" THEN Raise(r.w, t)
                 ELSE SplitResult(r.w, r.ret))

CursorTriggeredSetMixIn_read_buffer(w) ==
    IF w.c._result_index \notin DOMAIN w.c._result THEN Raise(w, "KeyError")
    ELSE Then(readline(w, w.c._result[w.c._result_index]), LAMBDA r : TriggerCheck(r))

_read_buffer(w) ==
    IF w.c.cls = "TriggeredCursor" THEN CursorTriggeredSetMixIn_read_buffer(w)
    ELSE BaseCursor_read_buffer(w)

\* lines 268-272: [exc, vals], decoding the fields from position index on
RECURSIVE DecodeRow(_, _, _)
DecodeRow(description, row, index) ==
    IF index > Len(row) THEN [exc |-> "none", vals |-> <<>>]
    ELSE IF description.py = "None" THEN [exc |-> "TypeError", vals |-> <<>>]
    ELSE IF index > Len(description.v) THEN [exc |-> "IndexError", vals |-> <<>>]
    ELSE Then(force_type(description.v[index][2], row[index]),
              LAMBDA f :
                 IF f.exc # "none" THEN [exc |-> f.exc, vals |-> <<>>]
                 ELSE Then(DecodeRow(description, row, index + 1),
                           LAMBDA rest :
                              IF rest.exc # "none" THEN rest
                              ELSE [exc |-> "none", vals |-> <<f.val>> \o rest.vals]))

\* CursorTupleRowsMixIn._decorate_row
_decorate_row(row) == PyTuple(row)

\* lines 265-273, on the raw line r
DecodeRaw(r) ==
    IF ~Truthy(r.ret) THEN Return(r.w, PyNone)
    ELSE Then(DecodeRow(r.w.c.description, Split(r.ret), 1),
              LAMBDA d :
                 IF d.exc # "none" THEN Raise(r.w, d.exc)
                 ELSE Return(r.w, _decorate_row(d.vals)))

_fetch_row(w) ==
    IF w.c._result_index \notin DOMAIN w.c._buffer THEN Raise(w, "KeyError")
    ELSE IF Truthy(w.c._buffer[w.c._result_index])
    THEN DecodeRaw(Return([w EXCEPT !.c._buffer[w.c._result_index] = PyNone],
                          w.c._buffer[w.c._result_index]))
    ELSE Then(_read_buffer(w),
              LAMBDA r :
                 IF r.exc = "KeyError" THEN Return(r.w, PyNone)
                 ELSE IF r.exc # "none" THEN r
                 ELSE DecodeRaw(r))

(***************************************************************************)
(* The fetch methods of CursorStreamResultMixIn, nextset and close.        *)
(***************************************************************************)
fetchone(w) == Try(_check_executed(w), LAMBDA e : _fetch_row(e.w))

\* the loop of fetchmany: every row _fetch_row gives is appended
RECURSIVE FetchManyLoop(_, _, _)
FetchManyLoop(w, size, result) ==
    IF size = 0 THEN Return(w, PyList(result))
    ELSE Try(_fetch_row(w), LAMBDA r : FetchManyLoop(r.w, size - 1, Append(result, r.ret)))

arraysize == 1

fetchmany(w, size) ==
    Try(_check_executed(w),
        LAMBDA e : FetchManyLoop(e.w, IF size = 0 THEN arraysize ELSE size, <<>>))

\* the loop of fetchall: it ends at the first row that is not true
RECURSIVE FetchAllLoop(_, _)
FetchAllLoop(w, result) ==
    Try(_fetch_row(w),
        LAMBDA r : IF ~Truthy(r.ret) THEN Return(r.w, PyList(result))
                   ELSE FetchAllLoop(r.w, Append(result, r.ret)))

fetchall(w) == FetchAllLoop(w, <<>>)

\* lines 96-100: read the current result set to its end
RECURSIVE DrainSet(_)
DrainSet(w) ==
    Then(_read_buffer(w),
         LAMBDA r : IF r.exc = "KeyError" THEN Return(r.w, PyNone)
                    ELSE IF r.exc # "none" THEN r
                    ELSE IF Truthy(r.ret) THEN DrainSet(r.w)
                    ELSE Return(r.w, PyNone))

\* lines 101-107, with _result_index already advanced to i
AdvanceTo(w, i) ==
    IF i \notin DOMAIN w.c._descriptions THEN Raise(w, "KeyError")
    ELSE IF i \in DOMAIN w.c._result
    THEN Return([w EXCEPT !.c.description = w.c._descriptions[i]], PyTrue)
    ELSE IF i \notin DOMAIN w.c._buffer
    THEN Raise([w EXCEPT !.c.description = w.c._descriptions[i]], "KeyError")
    ELSE Return([w EXCEPT !.c.description = w.c._descriptions[i]],
                IF w.c._buffer[i].py # "None" THEN PyNone ELSE PyTrue)

nextset(w) ==
    Try(_check_executed(w),
        LAMBDA e :
           Try(IF e.w.c._executed THEN DrainSet(e.w) ELSE e,
               LAMBDA d : AdvanceTo([d.w EXCEPT !.c.messages = <<>>,
                                                !.c._result_index = @ + 1],
                                    d.w.c._result_index + 1)))

close(w) == Return([w EXCEPT !.c.connection = FALSE], PyNone)

settriggers(w, columns) ==
    Return([w EXCEPT !.c._trigger_columns = [kind |-> "names", v |-> columns]], PyNone)

(***************************************************************************)
(* The output callback: the header and the first data line are read, the   *)
(* schema is inferred from that line, which stays as the lookahead.        *)
(***************************************************************************)
\* StoreResult as it would be if the line the schema is inferred from were
\* dropped instead of kept as the lookahead
StoreResult_DiscardsFirst(h, b, id, output) ==
    IF Len(Split(b.ret)) < Len(Split(h.ret)) THEN Raise(b.w, "IndexError")
    ELSE Return([b.w EXCEPT
                    !.c._descriptions =
                        Put(@, id, PyTuple([i \in 1..Len(Split(h.ret)) |->
                                               <<Split(h.ret)[i], infer_type(Split(b.ret)[i])>>])),
                    !.c._result = Put(@, id, output),
                    !.c._buffer = Put(@, id, PyNone)], PyNone)

\* lines 187-197 on the header line h and the data line b
StoreResult(h, b, id, output) ==
    IF Len(Split(b.ret)) < Len(Split(h.ret)) THEN Raise(b.w, "IndexError")
    ELSE Return([b.w EXCEPT
                    !.c._descriptions =
                        Put(@, id, PyTuple([i \in 1..Len(Split(h.ret)) |->
                                               <<Split(h.ret)[i], infer_type(Split(b.ret)[i])>>])),
                    !.c._result = Put(@, id, output),
                    !.c._buffer = Put(@, id, b.ret)], PyNone)

\* BaseCursor._command_output_handler
BaseCursor_command_output_handler(w, id, output) ==
    Then(readline(w, output),
         LAMBDA h : Then(readline(h.w, output), LAMBDA b : StoreResult(h, b, id, output)))

\* lines 432-437: the 0-based indices of the columns named as triggers; a
\* column name is never found among indices an earlier run left there
RECURSIVE TriggerIndices(_, _, _)
TriggerIndices(description, columns, index) ==
    IF index >= Len(description) THEN <<>>
    ELSE (IF columns.kind = "names"
             /\ \E j \in 1..Len(columns.v) : columns.v[j] = description[index + 1][1]
          THEN <<index>> ELSE <<>>)
         \o TriggerIndices(description, columns, index + 1)

\* SeedTriggers as it would be if the trigger values were left as they were
SeedTriggers_LeavesValues(w, id, columns) ==
    Return([w EXCEPT !.c._trigger_columns = [kind |-> "indices", v |-> columns]], PyNone)

\* lines 430-444 with the trigger columns resolved to indices
SeedTriggers(w, id, columns) ==
    Return([w EXCEPT !.c._trigger_columns = [kind |-> "indices", v |-> columns],
                     !.tcv = RecordTriggers(Split(w.c._buffer[id]), columns, @, 0).values],
           PyNone)

\* CursorTriggeredSetMixIn._command_output_handler
CursorTriggeredSetMixIn_command_output_handler(w, id, output) ==
    Try(BaseCursor_command_output_handler(w, id, output),
        LAMBDA r : SeedTriggers(r.w, id, TriggerIndices(r.w.c._descriptions[id].v,
                                                        r.w.c._trigger_columns, 0)))

_command_output_handler(w, id, output) ==
    IF w.c.cls = "TriggeredCursor"
    THEN CursorTriggeredSetMixIn_command_output_handler(w, id, output)
    ELSE BaseCursor_command_output_handler(w, id, output)

_command_error_handler(w, id, error) ==
    errorhandler([w EXCEPT !.c.messages = Append(@, <<"ProgrammingError", error>>)],
                 "ProgrammingError", error)

\* the handler logs; it asks for the connection first
_command_info_handler(w, id, info) == _get_db(w)

_pre_execute(w) ==
    [w EXCEPT !.c.messages = <<>>, !.c._result_index = 0,
              !.c._result = EmptyDict, !.c.description = PyNone]

_post_execute(w) ==
    IF 0 \notin DOMAIN w.c._descriptions THEN Raise([w EXCEPT !.c._result_index = 0], "KeyError")
    ELSE Return([w EXCEPT !.c._result_index = 0, !.c.description = w.c._descriptions[0]],
                PyNone)

(***************************************************************************)
(* Diagnostic lines of the tool, and the substring tests of Query.run.     *)
(***************************************************************************)
DiagText == {"", "Stage-1 map = 0%", "OK", "FAILED: syntax error",
             "FAILED: table BOOKS not found"}
\* 'OK' in message
ContainsOK(message) == message \in {"OK", "FAILED: table BOOKS not found"}
\* 'FAILED' in message
ContainsFAILED(message) ==
    message \in {"FAILED: syntax error", "FAILED: table BOOKS not found"}

(***************************************************************************)
(* Reading and writing the world of cursor k.                              *)
(***************************************************************************)
World(k) == [c |-> cursors[k], tcv |-> _trigger_column_values,
             out |-> [q \in DOMAIN process |-> process[q].stdout]]

Commit(k, w) ==
    /\ cursors' = [cursors EXCEPT ![k] = w.c]
    /\ _trigger_column_values' = w.tcv
    /\ process' = [q \in DOMAIN process |-> [process[q] EXCEPT !.stdout = w.out[q]]]

\* what held of cursor k before a call
Pre(k) ==
    LET c == cursors[k]
    IN  [executed |-> c._executed,
         connection |-> c.connection,
         drained |-> consumer[k].drained,
         fresh |-> consumer[k].loop = "start"]

Called(k, op, size, r) ==
    [op |-> op, cursor |-> k, size |-> size, pre |-> Pre(k), ret |-> r.ret, exc |-> r.exc]

\* a call that checks for an execute reports through cursor.messages when
\* there was none; such calls stop once MaxMessages are held
MayReport(k) == cursors[k]._executed \/ Len(cursors[k].messages) < MaxMessages

(***************************************************************************)
(* How a call moves a caller through                                       *)
(*     fetchall(); while nextset(): fetchall()                             *)
(* loop is "start" after execute, "fetched" after a fetchall that          *)
(* returned, "next" after a nextset that returned True, "end" after one    *)
(* that returned None, "broken" when a call of the loop raised, and "off"  *)
(* once the caller did anything else.                                      *)
(***************************************************************************)
LeaveLoop(u, r) == [u EXCEPT !.loop = IF @ = "none" THEN @ ELSE "off"]

AfterFetchAll(u, r) ==
    [u EXCEPT !.drained = (@ \/ r.exc = "none"),
              !.loop = IF @ \in {"start", "next"}
                       THEN (IF r.exc = "none" THEN "fetched" ELSE "broken")
                       ELSE IF @ = "none" THEN @ ELSE "off",
              !.sets = IF u.loop \in {"start", "next"} /\ r.exc = "none"
                       THEN Append(@, r.ret.v) ELSE @]

AfterNextSet(u, r) ==
    [u EXCEPT !.drained = FALSE,
              !.loop = IF @ = "fetched"
                       THEN (IF r.exc # "none" THEN "broken"
                             ELSE IF r.ret.py = "True" THEN "next" ELSE "end")
                       ELSE IF @ = "none" THEN @ ELSE "off"]

AfterExecute(u, r) ==
    [u EXCEPT !.loop = IF r.exc = "none" THEN "start" ELSE "off",
              !.sets = <<>>, !.drained = FALSE]

\* a call on cursor k that ran to its outcome r
Do(k, op, size, r, Step(_, _)) ==
    /\ caller.pc = "idle"
    /\ Commit(k, r.w)
    /\ last' = Called(k, op, size, r)
    /\ consumer' = [consumer EXCEPT ![k] = Step(consumer[k], r)]
    /\ UNCHANGED <<queries, tool, caller, events>>

(***************************************************************************)
(* The calls on cursor k, made while the caller is not inside execute.     *)
(***************************************************************************)
FetchOne(k) ==
    /\ MayReport(k)
    /\ Do(k, "fetchone", 0, fetchone(World(k)), LeaveLoop)

FetchMany(k, size) ==
    /\ MayReport(k)
    /\ Do(k, "fetchmany", size, fetchmany(World(k), size), LeaveLoop)

FetchAll(k) == Do(k, "fetchall", 0, fetchall(World(k)), AfterFetchAll)

NextSet(k) ==
    /\ MayReport(k)
    /\ cursors[k]._result_index < MaxIndex
    /\ Do(k, "nextset", 0, nextset(World(k)), AfterNextSet)

Close(k) == Do(k, "close", 0, close(World(k)), LeaveLoop)

TriggerNames == {<<>>, <<"a">>, <<"b">>, <<"a", "b">>}

\* the caller names the trigger columns ahead of an execute: before the
\* cursor's first one, or while the tool has a run left for another one
SetTriggers(k, columns) ==
    /\ cursors[k].cls = "TriggeredCursor"
    /\ ~cursors[k]._executed \/ tool # <<>>
    /\ Do(k, "settriggers", 0, settriggers(World(k), columns), LeaveLoop)

(***************************************************************************)
(* execute.  The call either ends at once (no query is started), or starts *)
(* a Query thread and waits in Query.wait until the thread sets ready.     *)
(***************************************************************************)
\* the except clauses of execute (lines 147-151), then _post_execute
ExecuteExcept(w, exc, value) ==
    Try(errorhandler([w EXCEPT !.c.messages = Append(@, <<exc, value>>)], exc, value),
        LAMBDA e : _post_execute(e.w))

\* _do_query on a cursor without connection: _get_db reports it; when the
\* handler returns, db is None and db.verbose raises
QueryWithoutConnection(w) ==
    Then(_get_db(w),
         LAMBDA g :
            IF g.exc # "none" THEN ExecuteExcept(g.w, g.exc, "cursor closed")
            ELSE ExecuteExcept([g.w EXCEPT !.c._executed = TRUE], "AttributeError",
                               "'NoneType' object has no attribute 'verbose'"))

ExecuteFail(k) ==
    /\ ~cursors[k].connection
    /\ Do(k, "execute", 0, QueryWithoutConnection(_pre_execute(World(k))), AfterExecute)

\* _do_query lines 224-241 for Query number q
StartQuery(k, w, q) ==
    /\ cursors' = [cursors EXCEPT ![k] =
            [w.c EXCEPT !._executed = TRUE, !._result_index = @ + 1]]
    /\ queries' = Append(queries, [cursor |-> k, id |-> w.c._result_index,
                                   pc |-> "poll", ready |-> FALSE, message |-> "",
                                   columns |-> <<>>])
    /\ process' = Append(process, [alive |-> TRUE,
                                   stderr |-> [lines |-> Head(tool).diag, pos |-> 0],
                                   stdout |-> [lines |-> Head(tool).out, pos |-> 0]])
    /\ caller' = [pc |-> "wait", cursor |-> k, query |-> q]
    /\ last' = [Called(k, "execute", 0, Return(w, PyNone)) EXCEPT !.exc = "waiting"]
    /\ consumer' = [consumer EXCEPT ![k] =
            [loop |-> "off", sets |-> <<>>, drained |-> FALSE, query |-> q]]

\* _pre_execute and _do_query up to query.wait(): the Query takes the id
\* _result_index, and the tool's next run is what its process will print
ExecuteStart(k) ==
    /\ caller.pc = "idle"
    /\ cursors[k].connection
    /\ tool # <<>>
    /\ StartQuery(k, _pre_execute(World(k)), Len(queries) + 1)
    /\ tool' = Tail(tool)
    /\ UNCHANGED <<_trigger_column_values, events>>

\* the end of execute on cursor k with the outcome r of _post_execute
EndExecute(k, r) ==
    /\ Commit(k, r.w)
    /\ last' = [last EXCEPT !.ret = r.ret, !.exc = r.exc]
    /\ consumer' = [consumer EXCEPT ![k].loop = IF r.exc = "none" THEN "start" ELSE "off"]

\* Query.wait returns once ready is set; execute ends with _post_execute
ExecuteReturn ==
    /\ caller.pc = "wait"
    /\ queries[caller.query].ready
    /\ EndExecute(caller.cursor, _post_execute(World(caller.cursor)))
    /\ caller' = [caller EXCEPT !.pc = "idle"]
    /\ UNCHANGED <<queries, tool, events>>

(***************************************************************************)
(* executemany.  _pre_execute, then one _do_query with wait=False for each *)
(* element of sequence_of_args, then Query.wait on each Query in turn,     *)
(* then _post_execute.  The Queries started take the ids _result_index,    *)
(* _result_index + 1, ... and run side by side.                            *)
(***************************************************************************)
AfterExecuteMany(u, r) ==
    [u EXCEPT !.loop = "off", !.sets = <<>>, !.drained = FALSE]

\* executemany that starts no Query: sequence_of_args is empty (n = 0), or
\* the first _do_query finds no connection
ExecuteManyNow(k, n) ==
    /\ n = 0 \/ ~cursors[k].connection
    /\ Do(k, "executemany", n,
          IF n = 0 THEN _post_execute(_pre_execute(World(k)))
          ELSE QueryWithoutConnection(_pre_execute(World(k))),
          AfterExecuteMany)

\* the n calls of _do_query (lines 224-241) for the Queries numbered from q
StartQueries(k, w, q, n) ==
    /\ cursors' = [cursors EXCEPT ![k] =
            [w.c EXCEPT !._executed = TRUE, !._result_index = @ + n]]
    /\ queries' = queries \o [j \in 1..n |->
            [cursor |-> k, id |-> w.c._result_index + j - 1, pc |-> "poll",
             ready |-> FALSE, message |-> "", columns |-> <<>>]]
    /\ process' = process \o [j \in 1..n |->
            [alive |-> TRUE,
             stderr |-> [lines |-> tool[j].diag, pos |-> 0],
             stdout |-> [lines |-> tool[j].out, pos |-> 0]]]
    /\ caller' = [pc |-> "waitmany", cursor |-> k, query |-> q]
    /\ last' = [Called(k, "executemany", n, Return(w, PyNone)) EXCEPT !.exc = "waiting"]
    /\ consumer' = [consumer EXCEPT ![k] =
            [loop |-> "off", sets |-> <<>>, drained |-> FALSE, query |-> q]]

\* executemany up to the first query.wait()
ExecuteManyStart(k, n) ==
    /\ caller.pc = "idle"
    /\ cursors[k].connection
    /\ n <= Len(tool)
    /\ StartQueries(k, _pre_execute(World(k)), Len(queries) + 1, n)
    /\ tool' = SubSeq(tool, n + 1, Len(tool))
    /\ UNCHANGED <<_trigger_column_values, events>>

\* the end of executemany on cursor k with the outcome r of _post_execute
EndExecuteMany(k, r) ==
    /\ Commit(k, r.w)
    /\ last' = [last EXCEPT !.ret = r.ret, !.exc = r.exc]
    /\ caller' = [caller EXCEPT !.pc = "idle"]

\* for query in queries: query.wait(); after the last one, _post_execute
ExecuteManyWait ==
    /\ caller.pc = "waitmany"
    /\ queries[caller.query].ready
    /\ IF caller.query < Len(queries)
       THEN /\ caller' = [caller EXCEPT !.query = @ + 1]
            /\ UNCHANGED <<cursors, _trigger_column_values, process, last>>
       ELSE EndExecuteMany(caller.cursor, _post_execute(World(caller.cursor)))
    /\ UNCHANGED <<queries, tool, events, consumer>>

(***************************************************************************)
(* Query.run, one step per statement that another thread or the process    *)
(* can tell apart.                                                         *)
(***************************************************************************)
\* the process ends; the model follows it while the thread can still see it
ProcessExit(q) ==
    /\ process[q].alive
    /\ queries[q].pc \in {"poll", "readline"}
    /\ process' = [process EXCEPT ![q].alive = FALSE]
    /\ UNCHANGED <<cursors, _trigger_column_values, queries, tool, caller, events,
                   last, consumer>>

\* while process.poll() == None
QueryPoll(q) ==
    /\ queries[q].pc = "poll"
    /\ queries' = [queries EXCEPT ![q].pc = IF process[q].alive THEN "readline" ELSE "output"]
    /\ UNCHANGED <<cursors, _trigger_column_values, process, tool, caller, events,
                   last, consumer>>

Event(cb, q, line) == [cb |-> cb, query |-> q, id |-> queries[q].id, line |-> line]

\* line 35: the error callback is reached
ReachesError(message) == ~ContainsOK(message) /\ ContainsFAILED(message)

\* lines 31-37 on the line message: the callbacks, as [w, ret, exc]
Classify(w, id, message) ==
    Try(IF message # "" THEN _command_info_handler(w, id, message) ELSE Return(w, PyNone),
        LAMBDA i : IF ReachesError(message) THEN _command_error_handler(i.w, id, message)
                   ELSE i)

\* AfterLine as it would be if ready were set when the scanning ends, ahead
\* of the output callback
AfterLine_ReadyBeforeOutput(q, message, e) ==
    /\ cursors' = [cursors EXCEPT ![queries[q].cursor] = e.w.c]
    /\ queries' = [queries EXCEPT
            ![q].pc = IF e.exc # "none" THEN "dead"
                      ELSE IF ContainsOK(message) \/ ContainsFAILED(message) THEN "output"
                      ELSE "poll",
            ![q].ready = e.exc = "none" /\ (ContainsOK(message) \/ ContainsFAILED(message)),
            ![q].message = message]
    /\ events' = events
           \o (IF message # "" THEN <<Event("info", q, message)>> ELSE <<>>)
           \o (IF ReachesError(message)
                  /\ (message = "" \/ _command_info_handler(World(queries[q].cursor),
                                                            queries[q].id, message).exc = "none")
               THEN <<Event("error", q, message)>> ELSE <<>>)

\* the thread after the outcome e of the callbacks for message
AfterLine(q, message, e) ==
    /\ cursors' = [cursors EXCEPT ![queries[q].cursor] = e.w.c]
    /\ queries' = [queries EXCEPT
            ![q].pc = IF e.exc # "none" THEN "dead"
                      ELSE IF ContainsOK(message) \/ ContainsFAILED(message) THEN "output"
                      ELSE "poll",
            ![q].message = message]
    /\ events' = events
           \o (IF message # "" THEN <<Event("info", q, message)>> ELSE <<>>)
           \o (IF ReachesError(message)
                  /\ (message = "" \/ _command_info_handler(World(queries[q].cursor),
                                                            queries[q].id, message).exc = "none")
               THEN <<Event("error", q, message)>> ELSE <<>>)

\* lines 30-37: stderr.readline() gives the next line, or '' once the
\* process has ended and nothing is left; then the callbacks and the tests
QueryReadline(q) ==
    /\ queries[q].pc = "readline"
    /\ \E message \in DiagText :
          /\ IF process[q].stderr.pos < Len(process[q].stderr.lines)
             THEN message = process[q].stderr.lines[process[q].stderr.pos + 1]
             ELSE message = "" /\ ~process[q].alive
          /\ AfterLine(q, message, Classify(World(queries[q].cursor), queries[q].id, message))
    /\ process' = [process EXCEPT ![q].stderr.pos =
                      IF @ < Len(process[q].stderr.lines) THEN @ + 1 ELSE @]
    /\ UNCHANGED <<_trigger_column_values, tool, caller, last, consumer>>

\* the thread after the outcome r of lines 419-429 of the output callback;
\* on a triggered cursor the callback goes on through lines 430-437, where
\* it reads self._trigger_columns, and keeps the indices it found in its
\* local variable columns
AfterOutput(q, r) ==
    /\ Commit(queries[q].cursor, r.w)
    /\ queries' = [queries EXCEPT
            ![q].pc = IF r.exc # "none" THEN "dead"
                      ELSE IF r.w.c.cls = "TriggeredCursor" THEN "seed" ELSE "setready",
            ![q].columns = IF r.exc # "none" \/ r.w.c.cls # "TriggeredCursor" THEN <<>>
                           ELSE TriggerIndices(r.w.c._descriptions[queries[q].id].v,
                                               r.w.c._trigger_columns, 0)]

\* lines 38-39: self.result = process.stdout; self.output_cb(self.id, self.result).
\* The callback runs on the Query thread; threads of one executemany run it
\* on the same cursor, and a thread switch can fall between the reading of
\* self._trigger_columns (line 435) and its assignment (line 438), so the
\* callback of a triggered cursor is two steps, this one and QuerySeed.
QueryOutput(q) ==
    /\ queries[q].pc = "output"
    /\ AfterOutput(q, BaseCursor_command_output_handler(World(queries[q].cursor),
                                                        queries[q].id, q))
    /\ events' = Append(events, Event("output", q, ""))
    /\ UNCHANGED <<tool, caller, last, consumer>>

\* the thread after lines 438-444
AfterSeed(q, r) ==
    /\ Commit(queries[q].cursor, r.w)
    /\ queries' = [queries EXCEPT ![q].pc = "setready"]

\* lines 438-444 of the output callback of a triggered cursor: the indices
\* become self._trigger_columns and the trigger values are seeded from the
\* first data line
QuerySeed(q) ==
    /\ queries[q].pc = "seed"
    /\ AfterSeed(q, SeedTriggers(World(queries[q].cursor), queries[q].id, queries[q].columns))
    /\ UNCHANGED <<tool, caller, events, last, consumer>>

\* line 40: self.ready = True
QuerySetReady(q) ==
    /\ queries[q].pc = "setready"
    /\ queries' = [queries EXCEPT ![q].pc = "done", ![q].ready = TRUE]
    /\ UNCHANGED <<cursors, _trigger_column_values, process, tool, caller, events,
                   last, consumer>>

(***************************************************************************)
(* The cursor as Connection.cursor() constructs it, and the system.        *)
(***************************************************************************)
NewCursor(cls, handler) ==
    [cls |-> cls, connection |-> TRUE, _executed |-> FALSE, messages |-> <<>>,
     errorhandler |-> handler, _descriptions |-> EmptyDict, description |-> PyNone,
     _result |-> EmptyDict, _result_index |-> 0, _buffer |-> EmptyDict,
     _trigger_columns |-> [kind |-> "names", v |-> <<>>]]

NewConsumer == [loop |-> "none", sets |-> <<>>, drained |-> FALSE, query |-> 0]

NoCall == [op |-> "none", cursor |-> 0, size |-> 0,
           pre |-> [executed |-> FALSE, connection |-> TRUE, drained |-> FALSE,
                    fresh |-> FALSE],
           ret |-> PyNone, exc |-> "none"]

\* the state after construction of the cursors cs for a tool that will run as t
Start(cs, t) ==
    /\ cursors = cs
    /\ _trigger_column_values = EmptyDict
    /\ queries = <<>>
    /\ process = <<>>
    /\ tool = t
    /\ caller = [pc |-> "idle", cursor |-> 0, query |-> 0]
    /\ events = <<>>
    /\ last = NoCall
    /\ consumer = [k \in DOMAIN cs |-> NewConsumer]

Next ==
    \/ \E k \in DOMAIN cursors : FetchOne(k)
    \/ \E k \in DOMAIN cursors, size \in 0..MaxSize : FetchMany(k, size)
    \/ \E k \in DOMAIN cursors : FetchAll(k)
    \/ \E k \in DOMAIN cursors : NextSet(k)
    \/ \E k \in DOMAIN cursors : Close(k)
    \/ \E k \in DOMAIN cursors, columns \in TriggerNames : SetTriggers(k, columns)
    \/ \E k \in DOMAIN cursors : ExecuteFail(k)
    \/ \E k \in DOMAIN cursors : ExecuteStart(k)
    \/ ExecuteReturn
    \/ \E k \in DOMAIN cursors, n \in 0..MaxArgs : ExecuteManyNow(k, n)
    \/ \E k \in DOMAIN cursors, n \in 1..MaxArgs : ExecuteManyStart(k, n)
    \/ ExecuteManyWait
    \/ \E q \in DOMAIN queries : ProcessExit(q)
    \/ \E q \in DOMAIN queries : QueryPoll(q)
    \/ \E q \in DOMAIN queries : QueryReadline(q)
    \/ \E q \in DOMAIN queries : QueryOutput(q)
    \/ \E q \in DOMAIN queries : QuerySeed(q)
    \/ \E q \in DOMAIN queries : QuerySetReady(q)

(***************************************************************************)
(* What the tool prints on stdout: a header line and up to MaxRows data    *)
(* lines with one field per column.                                        *)
(***************************************************************************)
Tuples(S, n) == [1..n -> S]
Headers == {<<"a">>, <<"a", "b">>}
DataLines(header, values, n) == UNION {[1..m -> Tuples(values, Len(header))] : m \in 0..n}
Outputs(values, n) ==
    UNION {{<<header>> \o rows : rows \in DataLines(header, values, n)} : header \in Headers}

(***************************************************************************)
(* Spec: one cursor, plain or triggered, with the default error handler,   *)
(* on a tool that reports OK and prints integer fields.                    *)
(***************************************************************************)
Init ==
    \E cls \in {"Cursor", "TriggeredCursor"}, out \in Outputs({"1", "2"}, MaxRows) :
        Start(<<NewCursor(cls, "default")>>, <<[diag |-> <<"OK">>, out |-> out]>>)

Spec == Init /\ [][Next]_vars

(***************************************************************************)
(* SpecDriver: the same system on a tool whose diagnostic stream varies    *)
(* (up to two lines of any kind) and whose output is one column with two   *)
(* data lines.                                                             *)
(***************************************************************************)
Diags == UNION {[1..n -> DiagText] : n \in 0..2}

InitDriver ==
    \E cls \in {"Cursor", "TriggeredCursor"}, diag \in Diags,
       out \in {<<<<"a">>, <<"1">>, <<"2">>>>} :
        Start(<<NewCursor(cls, "default")>>, <<[diag |-> diag, out |-> out]>>)

SpecDriver == InitDriver /\ [][Next]_vars

(***************************************************************************)
(* SpecDecode: one cursor on a tool that reports OK and prints a two-      *)
(* column table whose data lines hold integers, floats, text and NULL, and *)
(* may have a field too few or too many.                                   *)
(***************************************************************************)
DecodeLines == {<<"1", "foo">>, <<"2", "NULL">>, <<"foo", "1">>, <<"NULL", "1.5">>,
                <<"2">>, <<"2", "foo", "1">>}

DecodeOutputs ==
    {<<<<"a", "b">>>> \o rows : rows \in UNION {[1..m -> DecodeLines] : m \in 0..MaxRows}}

InitDecode ==
    \E cls \in {"Cursor", "TriggeredCursor"}, out \in DecodeOutputs :
        Start(<<NewCursor(cls, "default")>>, <<[diag |-> <<"OK">>, out |-> out]>>)

SpecDecode == InitDecode /\ [][Next]_vars

(***************************************************************************)
(* SpecHandler: one cursor whose error handler is the default one or one   *)
(* that records and returns, on a tool that reports progress, success or   *)
(* failure and prints one column with two data lines.                      *)
(***************************************************************************)
HandlerDiags == {<<>>, <<"OK">>, <<"FAILED: syntax error">>,
                 <<"Stage-1 map = 0%", "OK">>,
                 <<"Stage-1 map = 0%", "FAILED: syntax error">>,
                 <<"FAILED: table BOOKS not found">>}

InitHandler ==
    \E cls \in {"Cursor", "TriggeredCursor"}, handler \in {"default", "record"},
       diag \in HandlerDiags :
        Start(<<NewCursor(cls, handler)>>,
              <<[diag |-> diag, out |-> <<<<"a">>, <<"1">>, <<"2">>>>]>>)

SpecHandler == InitHandler /\ [][Next]_vars

(***************************************************************************)
(* SpecMany: one triggered cursor with the default error handler on a tool *)
(* that is run twice, by two executes or by one executemany; the first run *)
(* prints integers, the second one text.                                   *)
(***************************************************************************)
InitMany ==
    Start(<<NewCursor("TriggeredCursor", "default")>>,
          <<[diag |-> <<"OK">>, out |-> <<<<"a">>, <<"1">>, <<"2">>>>],
            [diag |-> <<"OK">>, out |-> <<<<"a">>, <<"foo">>, <<"NULL">>>>]>>)

SpecMany == InitMany /\ [][Next]_vars

(***************************************************************************)
(* SpecShared: two triggered cursors with the default error handler, used  *)
(* in turn by one caller, on a tool that is run twice; both runs print one *)
(* column, the first the value 1 twice, the second the value 2.            *)
(***************************************************************************)
InitShared ==
    Start(<<NewCursor("TriggeredCursor", "default"), NewCursor("TriggeredCursor", "default")>>,
          <<[diag |-> <<"OK">>, out |-> <<<<"a">>, <<"1">>, <<"1">>>>],
            [diag |-> <<"OK">>, out |-> <<<<"a">>, <<"2">>>>]>>)

\* the caller sets triggers, executes, fetches and calls nextset
NextShared ==
    \/ \E k \in DOMAIN cursors : FetchOne(k)
    \/ \E k \in DOMAIN cursors : FetchAll(k)
    \/ \E k \in DOMAIN cursors : NextSet(k)
    \/ \E k \in DOMAIN cursors, columns \in {<<>>, <<"a">>} : SetTriggers(k, columns)
    \/ \E k \in DOMAIN cursors : ExecuteStart(k)
    \/ ExecuteReturn
    \/ \E q \in DOMAIN queries : ProcessExit(q)
    \/ \E q \in DOMAIN queries : QueryPoll(q)
    \/ \E q \in DOMAIN queries : QueryReadline(q)
    \/ \E q \in DOMAIN queries : QueryOutput(q)
    \/ \E q \in DOMAIN queries : QuerySeed(q)
    \/ \E q \in DOMAIN queries : QuerySetReady(q)

SpecShared == InitShared /\ [][NextShared]_vars

(***************************************************************************)
(* Notions the properties use.                                             *)
(***************************************************************************)
RECURSIVE Flatten(_)
Flatten(batches) == IF batches = <<>> THEN <<>> ELSE Head(batches) \o Flatten(Tail(batches))

\* the data lines Query q's process prints, after the header
DataRows(q) == Tail(process[q].stdout.lines)

\* the schema the first data line gives
SchemaOf(header, first) ==
    PyTuple([i \in 1..Len(header) |-> <<header[i], infer_type(first[i])>>])

\* the data lines of Query q as rows decoded under that schema
ExpectedRows(q) ==
    [j \in 1..Len(DataRows(q)) |->
        PyTuple(DecodeRow(SchemaOf(Head(process[q].stdout.lines), DataRows(q)[1]),
                          DataRows(q)[j], 1).vals)]

\* cursor k is a triggered cursor whose trigger columns were found in the schema
TriggersSet(k) ==
    /\ cursors[k].cls = "TriggeredCursor"
    /\ cursors[k]._trigger_columns.kind = "indices"
    /\ cursors[k]._trigger_columns.v # <<>>

\* the consumer loop on cursor k is over: nextset did not return True, or a
\* call of the loop raised
LoopOver(k) == consumer[k].loop \in {"end", "broken"}

\* the data lines of Query q at which a trigger column of cursor k changes
TriggerChanges(k, q) ==
    {j \in 2..Len(DataRows(q)) :
        \E i \in 1..Len(cursors[k]._trigger_columns.v) :
            DataRows(q)[j][cursors[k]._trigger_columns.v[i] + 1]
                # DataRows(q)[j - 1][cursors[k]._trigger_columns.v[i] + 1]}

\* the callbacks invoked for Query q, as positions in events
EventsOf(cb, q) == {i \in DOMAIN events : events[i].cb = cb /\ events[i].query = q}

\* the size fetchmany works with
SizeUsed(size) == IF size = 0 THEN arraysize ELSE size

FetchOps == {"fetchone", "fetchmany", "fetchall"}

(***************************************************************************)
(* C1.  On a triggered cursor with trigger columns set, when the loop      *)
(* fetchall(); while nextset(): fetchall() is over, the batches fetchall   *)
(* returned, concatenated, are exactly the data rows of the stream in      *)
(* order.                                                                  *)
(***************************************************************************)
C1_ConsumerGetsEveryRow ==
    \A k \in DOMAIN cursors :
        TriggersSet(k) /\ LoopOver(k)
            => Flatten(consumer[k].sets) = ExpectedRows(consumer[k].query)

(***************************************************************************)
(* C2.  On a triggered cursor reading a stream with at least one data row  *)
(* whose trigger columns change at k rows, the loop ends because nextset   *)
(* returned None, after exactly k + 1 result sets, none of them empty.     *)
(***************************************************************************)
C2_OneSetPerTriggerChange ==
    \A k \in DOMAIN cursors :
        TriggersSet(k) /\ LoopOver(k) /\ DataRows(consumer[k].query) # <<>>
            => /\ consumer[k].loop = "end"
               /\ Len(consumer[k].sets) = Cardinality(TriggerChanges(k, consumer[k].query)) + 1
               /\ \A i \in 1..Len(consumer[k].sets) : consumer[k].sets[i] # <<>>

(***************************************************************************)
(* C3.  nextset() on an executed cursor that advances to a result-set id   *)
(* with no entry (no schema, no line source, no lookahead) returns None    *)
(* and does not raise.                                                     *)
(***************************************************************************)
C3_NextSetPastLastReturnsNone ==
    \A k \in DOMAIN cursors :
        (/\ last.op = "nextset" /\ last.cursor = k /\ last.pre.executed
         /\ cursors[k]._result_index \notin
               (DOMAIN cursors[k]._descriptions \cup DOMAIN cursors[k]._result
                   \cup DOMAIN cursors[k]._buffer))
            => last.exc = "none" /\ last.ret = PyNone

(***************************************************************************)
(* C4.  fetchmany(n) on an executed cursor returns, without raising, a     *)
(* list of at most n entries, each of them a row (never None).             *)
(***************************************************************************)
C4_FetchManyOnlyRows ==
    last.op = "fetchmany" /\ last.pre.executed
        => /\ last.exc = "none"
           /\ Len(last.ret.v) <= SizeUsed(last.size)
           /\ \A i \in 1..Len(last.ret.v) : last.ret.v[i].py = "tuple"

(***************************************************************************)
(* C5.  Once fetchall() has returned, every fetchall() or fetchone() made  *)
(* before the next nextset() or execute returns the empty list or None     *)
(* and does not raise.                                                     *)
(***************************************************************************)
C5_FetchAfterExhaustion ==
    last.op \in {"fetchall", "fetchone"} /\ last.pre.drained
        => /\ last.exc = "none"
           /\ last.ret \in {PyNone, PyList(<<>>)}

(***************************************************************************)
(* C6.  fetchone(), fetchmany(n) and fetchall() on a cursor with no        *)
(* execute report ProgrammingError 'execute() first' through the error     *)
(* handler, return no row, and fail with no other error.                   *)
(***************************************************************************)
C6_FetchBeforeExecute ==
    \A k \in DOMAIN cursors :
        last.op \in FetchOps /\ last.cursor = k /\ ~last.pre.executed
            => /\ last.exc \in {"none", "ProgrammingError"}
               /\ cursors[k].messages # <<>>
               /\ cursors[k].messages[Len(cursors[k].messages)]
                     = <<"ProgrammingError", "execute() first">>
               /\ ~Truthy(last.ret)

(***************************************************************************)
(* C7.  On a cursor that was executed and then closed, every later         *)
(* execute, fetchone, fetchmany, fetchall and nextset raises               *)
(* ProgrammingError (so none returns a row).                               *)
(***************************************************************************)
C7_ClosedCursorRefuses ==
    (/\ last.op \in FetchOps \cup {"execute", "nextset"}
     /\ last.pre.executed /\ ~last.pre.connection)
        => last.exc = "ProgrammingError"

(***************************************************************************)
(* C8.  When close() returns on an executed cursor, every line source the  *)
(* cursor holds has been read to its end.                                  *)
(***************************************************************************)
C8_CloseDrains ==
    \A k \in DOMAIN cursors :
        last.op = "close" /\ last.cursor = k /\ last.pre.executed
            => \A i \in DOMAIN cursors[k]._result :
                  process[cursors[k]._result[i]].stdout.pos
                      = Len(process[cursors[k]._result[i]].stdout.lines)

(***************************************************************************)
(* C9.  A Query thread started by execute does not end before it has       *)
(* invoked the output callback exactly once and set ready; a FAILED        *)
(* diagnostic line does not prevent this.                                  *)
(***************************************************************************)
C9_DriverAlwaysHandsOver ==
    \A q \in DOMAIN queries :
        queries[q].pc \in {"done", "dead"}
            => Cardinality(EventsOf("output", q)) = 1 /\ queries[q].ready

\* the first diagnostic line of Query q's process that ends the scanning
\* is line n, and it contains FAILED
FirstEndIsFailed(q, n) ==
    /\ n \in 1..Len(process[q].stderr.lines)
    /\ ContainsFAILED(process[q].stderr.lines[n])
    /\ \A m \in 1..(n - 1) : /\ ~ContainsOK(process[q].stderr.lines[m])
                             /\ ~ContainsFAILED(process[q].stderr.lines[m])

(***************************************************************************)
(* C10.  When the tool writes a line containing FAILED and no earlier line *)
(* ended the scanning, the error callback is invoked with (id, that line)  *)
(* before the output callback fires.                                       *)
(***************************************************************************)
C10_FailureReportedBeforeOutput ==
    \A q \in DOMAIN queries : \A n \in 1..Len(process[q].stderr.lines) :
        FirstEndIsFailed(q, n)
            => \A o \in EventsOf("output", q) :
                  \E e \in EventsOf("error", q) :
                      /\ e < o
                      /\ events[e].id = queries[q].id
                      /\ events[e].line = process[q].stderr.lines[n]

\* the value 'NULL' stands for in a column of a kind
ZeroOf(kind) ==
    CASE kind = "int" -> [t |-> "int", v |-> "0"]
      [] kind = "float" -> [t |-> "float", v |-> "0.0"]
      [] kind = "str" -> [t |-> "str", v |-> ""]
      [] kind = "json" -> [t |-> "NoneType", v |-> "None"]

\* the row a data line stands for under a schema
ExpectedValue(kind, text) == IF text = "NULL" THEN ZeroOf(kind) ELSE force_type(kind, text).val
ExpectedRow(schema, line) ==
    PyTuple([i \in 1..Len(line) |-> ExpectedValue(schema.v[i][2], line[i])])

\* the header and the data lines of Query q, and whether every data line has
\* one field per column
HeaderOf(q) == Head(process[q].stdout.lines)
WellFormed(q) == \A j \in 1..Len(DataRows(q)) : Len(DataRows(q)[j]) = Len(HeaderOf(q))

\* the table of the scenario: header a, b and the rows 1, foo and 2, NULL
ScenarioLines == <<<<"a", "b">>, <<"1", "foo">>, <<"2", "NULL">>>>
ScenarioSchema == PyTuple(<<<<"a", "int">>, <<"b", "str">>>>)
ScenarioRows ==
    PyList(<<PyTuple(<<[t |-> "int", v |-> "1"], [t |-> "str", v |-> "foo"]>>),
             PyTuple(<<[t |-> "int", v |-> "2"], [t |-> "str", v |-> ""]>>)>>)

(***************************************************************************)
(* C11.  After an execute on a stream with a data row, the schema of id 0  *)
(* is the header's names paired with the kinds inferred from the first     *)
(* data row; the first fetch returns that row, decoded; a fetchall that    *)
(* returns on a cursor without triggers gives every row decoded under that *)
(* schema, NULL as the zero value of the kind; header a, b with rows       *)
(* 1, foo and 2, NULL gives [(a, int), (b, str)] and [(1, 'foo'), (2, '')].*)
(***************************************************************************)
C11_SchemaFromFirstRowKept ==
    \A k \in DOMAIN cursors :
        LET q == consumer[k].query
        IN  /\ (consumer[k].loop = "start" /\ DataRows(q) # <<>>)
                => /\ cursors[k]._descriptions[0] = SchemaOf(HeaderOf(q), DataRows(q)[1])
                   /\ cursors[k].description = SchemaOf(HeaderOf(q), DataRows(q)[1])
            /\ (/\ last.op = "fetchone" /\ last.cursor = k /\ last.pre.fresh
                 /\ DataRows(q) # <<>> /\ Len(DataRows(q)[1]) = Len(HeaderOf(q)))
                => /\ last.exc = "none"
                   /\ last.ret = ExpectedRow(SchemaOf(HeaderOf(q), DataRows(q)[1]),
                                              DataRows(q)[1])
            /\ (/\ last.op = "fetchall" /\ last.cursor = k /\ last.pre.fresh
                 /\ last.exc = "none" /\ ~TriggersSet(k)
                 /\ DataRows(q) # <<>> /\ WellFormed(q))
                => last.ret = PyList([j \in 1..Len(DataRows(q)) |->
                                        ExpectedRow(SchemaOf(HeaderOf(q), DataRows(q)[1]),
                                                    DataRows(q)[j])])
            /\ (/\ last.op = "fetchall" /\ last.cursor = k /\ last.pre.fresh
                 /\ ~TriggersSet(k) /\ process[q].stdout.lines = ScenarioLines)
                => /\ last.exc = "none"
                   /\ cursors[k].description = ScenarioSchema
                   /\ last.ret = ScenarioRows

\* the scenario's fetchall has returned its two rows
C11_Witness ==
    /\ last.op = "fetchall" /\ last.pre.fresh /\ last.exc = "none"
    /\ process[consumer[last.cursor].query].stdout.lines = ScenarioLines
    /\ last.ret = ScenarioRows

\* the rows a fetch returned: the row of fetchone, the rows in the batch of
\* fetchmany and fetchall
RowsReturned ==
    IF last.ret.py = "tuple" THEN {last.ret}
    ELSE IF last.ret.py = "list"
    THEN {last.ret.v[i] : i \in {j \in 1..Len(last.ret.v) : last.ret.v[j].py = "tuple"}}
    ELSE {}

(***************************************************************************)
(* C12.  Every row a fetch returns has as many values as the current       *)
(* schema has columns; a data line with another number of fields is        *)
(* reported through the error handler (so it is in cursor.messages), and   *)
(* is never returned as a shorter row.                                     *)
(***************************************************************************)
C12_RowsMatchSchema ==
    \A k \in DOMAIN cursors :
        (last.op \in FetchOps /\ last.cursor = k /\ last.pre.executed)
            => /\ \A row \in RowsReturned :
                     /\ cursors[k].description.py = "tuple"
                     /\ Len(row.v) = Len(cursors[k].description.v)
               /\ last.exc = "IndexError" => cursors[k].messages # <<>>

(***************************************************************************)
(* C13.  On a stream whose data lines all have one field per column,       *)
(* decoding a line under the schema fixed from the first data line never   *)
(* raises, whatever text the fields hold: no fetch ends with the           *)
(* ValueError of float(), int() or json.loads().                           *)
(***************************************************************************)
C13_DecodeIsTotal ==
    \A k \in DOMAIN cursors :
        (/\ last.op \in FetchOps /\ last.cursor = k /\ last.pre.executed
         /\ consumer[k].query \in DOMAIN process
         /\ WellFormed(consumer[k].query))
            => last.exc # "ValueError"

\* the last execute of cursor k started a Query for which the error callback
\* was invoked
FailedExecute(k) ==
    /\ consumer[k].query \in DOMAIN queries
    /\ EventsOf("error", consumer[k].query) # {}

(***************************************************************************)
(* C14.  With an error handler that records and does not raise, a fetch    *)
(* before any execute returns None or an empty batch, and a fetch after an *)
(* execute whose tool reported failure returns without raising and gives   *)
(* no row that is not a row of the stream.                                 *)
(***************************************************************************)
C14_EndOfSetAfterRecordedError ==
    \A k \in DOMAIN cursors :
        (last.op \in FetchOps /\ last.cursor = k /\ cursors[k].errorhandler = "record")
            => /\ ~last.pre.executed
                    => last.exc = "none" /\ last.ret \in {PyNone, PyList(<<>>)}
               /\ (last.pre.executed /\ FailedExecute(k))
                    => /\ last.exc = "none"
                       /\ \A row \in RowsReturned :
                             \E j \in 1..Len(DataRows(consumer[k].query)) :
                                row = ExpectedRow(cursors[k].description,
                                                  DataRows(consumer[k].query)[j])

\* the diagnostic lines Query q has read so far that are not empty
LinesReported(q) ==
    {n \in 1..process[q].stderr.pos : process[q].stderr.lines[n] # ""}

(***************************************************************************)
(* C15.  For every Query (one per result-set id of an execute): the info   *)
(* and error callbacks invoked for it come before its output callback,     *)
(* every non-empty diagnostic line read was handed to the info callback,   *)
(* ready is set only after the output callback has returned, and the       *)
(* caller is back from execute, able to fetch, only once ready is set.     *)
(***************************************************************************)
C15_DiagnosticsBeforeRows ==
    \A q \in DOMAIN queries :
        /\ \A o \in EventsOf("output", q) :
              \A e \in EventsOf("info", q) \cup EventsOf("error", q) : e < o
        /\ Cardinality(EventsOf("info", q)) = Cardinality(LinesReported(q))
        /\ queries[q].ready
              => /\ queries[q].pc = "done"
                 /\ Cardinality(EventsOf("output", q)) = 1
        /\ caller.pc = "idle" => queries[q].ready

\* a Query is ready after a progress line and a failure line were reported
\* and the output callback returned
C15_Witness ==
    \E q \in DOMAIN queries :
        /\ queries[q].ready
        /\ EventsOf("error", q) # {}
        /\ Cardinality(EventsOf("info", q)) = 2

(***************************************************************************)
(* C16.  On a triggered cursor, whatever columns were named as triggers:   *)
(* when execute returns on a stream with a data row, the trigger values    *)
(* are those of that first row; and the first fetch returns that row, as a *)
(* row of result-set id 0, without a split.                                *)
(***************************************************************************)
C16_FirstRowSeedsNoSplit ==
    \A k \in DOMAIN cursors :
        LET q == consumer[k].query
            c == cursors[k]
        IN  c.cls = "TriggeredCursor" =>
            /\ (consumer[k].loop = "start" /\ DataRows(q) # <<>>)
                => /\ c._trigger_columns.kind = "indices"
                   /\ \A i \in 1..Len(c._trigger_columns.v) :
                         /\ (i - 1) \in DOMAIN _trigger_column_values
                         /\ _trigger_column_values[i - 1]
                               = DataRows(q)[1][c._trigger_columns.v[i] + 1]
            /\ (/\ last.op = "fetchone" /\ last.cursor = k /\ last.pre.fresh
                 /\ DataRows(q) # <<>>)
                => /\ last.exc = "none"
                   /\ last.ret = ExpectedRow(SchemaOf(HeaderOf(q), DataRows(q)[1]),
                                              DataRows(q)[1])
                   /\ c._result_index = 0
                   /\ 0 \in DOMAIN c._result
                   /\ 0 \in DOMAIN c._descriptions

\* the first fetchone after execute returned the first row on a cursor whose
\* two columns are both trigger columns
C16_Witness ==
    \E k \in DOMAIN cursors :
        /\ TriggersSet(k) /\ Len(cursors[k]._trigger_columns.v) = 2
        /\ last.op = "fetchone" /\ last.cursor = k /\ last.pre.fresh
        /\ last.ret.py = "tuple"

\* the Queries started for cursor k that have not set ready
Unready(k) == {q \in DOMAIN queries : queries[q].cursor = k /\ ~queries[q].ready}

(***************************************************************************)
(* C20.  At every moment, whatever execute and executemany calls were made *)
(* on a cursor, at most one Query started for it has not yet set ready.    *)
(***************************************************************************)
C20_OneDriverPerCursor ==
    \A k \in DOMAIN cursors : Cardinality(Unready(k)) <= 1

\* the step is a fetch or a nextset on some cursor
ReadingStep == last'.op \in FetchOps \cup {"nextset"} /\ cursors' # cursors

(***************************************************************************)
(* C17.  No fetch, nextset or trigger split changes the schema of a        *)
(* result-set id that has a schema entry before and after the step; a      *)
(* split (the current id loses its line source) removes the old id's       *)
(* schema and gives the new id one.                                        *)
(***************************************************************************)
C17_SchemaNeverChanges ==
    [][ReadingStep =>
          \A k \in DOMAIN cursors :
              /\ \A i \in DOMAIN cursors[k]._descriptions
                            \cap DOMAIN cursors'[k]._descriptions :
                    cursors'[k]._descriptions[i] = cursors[k]._descriptions[i]
              /\ \A i \in DOMAIN cursors[k]._result \ DOMAIN cursors'[k]._result :
                    /\ i \notin DOMAIN cursors'[k]._descriptions
                    /\ (i + 1) \in DOMAIN cursors'[k]._descriptions]_vars

(***************************************************************************)
(* C18.  After every step each line source is registered under at most one *)
(* result-set id of its cursor; a trigger split (the current id loses its  *)
(* source during a fetch or nextset) registers that source under id + 1,   *)
(* leaves the old id without a source, schema or lookahead entry, and      *)
(* leaves the source of every other registered id as it was.               *)
(***************************************************************************)
C18_SourceOwnedByOneId ==
    [][\A k \in DOMAIN cursors :
          /\ \A i, j \in DOMAIN cursors'[k]._result :
                cursors'[k]._result[i] = cursors'[k]._result[j] => i = j
          /\ ReadingStep =>
                /\ \A i \in DOMAIN cursors[k]._result \ DOMAIN cursors'[k]._result :
                      /\ (i + 1) \in DOMAIN cursors'[k]._result
                      /\ cursors'[k]._result[i + 1] = cursors[k]._result[i]
                      /\ i \notin DOMAIN cursors'[k]._descriptions
                      /\ i \notin DOMAIN cursors'[k]._buffer
                /\ \A j \in DOMAIN cursors[k]._result \cap DOMAIN cursors'[k]._result :
                      cursors'[k]._result[j] = cursors[k]._result[j]]_vars

\* the world w with its cursor taken as a plain Cursor
AsPlain(w) ==
    [w EXCEPT !.c.cls = "Cursor", !.c._trigger_columns = [kind |-> "names", v |-> <<>>]]

\* the call result a of the triggered cursor and the call result b of the
\* plain cursor agree: same return value, same exception, same cursor fields,
\* and the triggered call unregistered no result-set id of the world w
SameAsPlain(w, a, b) ==
    /\ a.ret = b.ret
    /\ a.exc = b.exc
    /\ AsPlain(a.w) = b.w
    /\ DOMAIN w.c._result \subseteq DOMAIN a.w.c._result

\* cursor k is a triggered cursor with no trigger columns configured
Untriggered(k) ==
    cursors[k].cls = "TriggeredCursor" /\ cursors[k]._trigger_columns.v = <<>>

(***************************************************************************)
(* C19.  In every state a triggered cursor with no trigger columns         *)
(* configured can reach, each of fetchone, fetchmany, fetchall and nextset *)
(* and the output callback returns what it returns on the plain cursor     *)
(* with the same fields and streams, leaves the same fields and streams    *)
(* behind, and unregisters no result-set id (no split); so the two cursors *)
(* agree on every sequence of these calls.                                 *)
(***************************************************************************)
C19_NoTriggersIsPlainCursor ==
    \A k \in DOMAIN cursors :
        Untriggered(k) =>
            /\ SameAsPlain(World(k), fetchone(World(k)), fetchone(AsPlain(World(k))))
            /\ \A size \in 0..MaxSize :
                  SameAsPlain(World(k), fetchmany(World(k), size),
                              fetchmany(AsPlain(World(k)), size))
            /\ SameAsPlain(World(k), fetchall(World(k)), fetchall(AsPlain(World(k))))
            /\ SameAsPlain(World(k), nextset(World(k)), nextset(AsPlain(World(k))))
            /\ \A q \in DOMAIN process :
                  SameAsPlain(World(k), _command_output_handler(World(k), 0, q),
                              _command_output_handler(AsPlain(World(k)), 0, q))

\* a triggered cursor without trigger columns has just fetched two rows whose
\* first fields differ
C19_Witness ==
    \E k \in DOMAIN cursors :
        /\ Untriggered(k)
        /\ last.op = "fetchall" /\ last.cursor = k /\ last.exc = "none"
        /\ last.ret.py = "list" /\ Len(last.ret.v) = 2
        /\ last.ret.v[1].v[1] # last.ret.v[2].v[1]

\* the step is the resolution of the trigger columns (lines 438-444) by the
\* Query q that an execute is waiting for
ResolvingStep(q) ==
    /\ queries[q].pc = "seed" /\ queries'[q].pc = "setready"
    /\ caller.pc = "wait" /\ caller.query = q

\* an earlier execute on the cursor of Query q resolved trigger names to
\* columns of the same header, and no settriggers call was made since
ResolvedBefore(q) ==
    /\ q > 1
    /\ queries[q - 1].cursor = queries[q].cursor
    /\ HeaderOf(q - 1) = HeaderOf(q)
    /\ TriggersSet(queries[q].cursor)

(***************************************************************************)
(* C22.  Trigger columns set once with settriggers(names) stay in effect   *)
(* for a later execute: when the output callback of a later execute on a   *)
(* stream with the same header resolves the trigger columns, with no       *)
(* settriggers call since the earlier execute resolved them, the cursor    *)
(* keeps the same trigger columns, so the stream is split at the changes   *)
(* of the same columns.                                                    *)
(***************************************************************************)
C22_TriggersOutliveExecute ==
    [][\A q \in DOMAIN queries :
          ResolvingStep(q) /\ ResolvedBefore(q)
              => cursors'[queries[q].cursor]._trigger_columns
                    = cursors[queries[q].cursor]._trigger_columns]_vars

\* the step is an operation of cursor k: a call on it, or a step of a Query
\* started for it
Acting(k) ==
    \/ cursors'[k]._result # cursors[k]._result
    \/ cursors'[k]._result_index # cursors[k]._result_index
    \/ last' # last /\ last'.cursor = k
    \/ \E q \in DOMAIN queries : queries[q].cursor = k /\ queries'[q] # queries[q]

\* the last-seen trigger values of cursor k, the entries of
\* _trigger_column_values its trigger columns are compared with, are after
\* the step what they were before
KeepsTriggerState(k) ==
    \A i \in 0..(Len(cursors[k]._trigger_columns.v) - 1) :
        i \in DOMAIN _trigger_column_values
            => /\ i \in DOMAIN _trigger_column_values'
               /\ _trigger_column_values'[i] = _trigger_column_values[i]

(***************************************************************************)
(* C21.  The last-seen trigger values of a triggered cursor with trigger   *)
(* columns in effect are changed only by that cursor's own operations: a   *)
(* step that is an operation of another cursor, whatever the interleaving  *)
(* of execute, fetch and nextset calls on the two, leaves them as they     *)
(* were.  Every step that changes the trigger values changes one of the    *)
(* variables of the subscript.                                             *)
(***************************************************************************)
C21_TriggerStateIsPerCursor ==
    [][\A j \in DOMAIN cursors, k \in DOMAIN cursors :
          j # k /\ TriggersSet(j) /\ Acting(k) /\ ~Acting(j)
              => KeepsTriggerState(j)]_<<_trigger_column_values, queries, last>>

====
